---- MODULE Spec2Model ----
(***************************************************************************)
(* A model of the todo HTTP service of src/src/main.rs: the bb8 connection *)
(* pool built in main, the table "todo" behind it, and the four handlers   *)
(* todo_create, todos_list, todo_update and todo_delete, each split at its *)
(* await points so that concurrent requests interleave.                    *)
(***************************************************************************)
EXTENDS Integers, Sequences, FiniteSets, TLC

(***************************************************************************)
(* Bounds of the model.                                                    *)
(***************************************************************************)
\* Number of requests the runtime handles concurrently (tokio tasks).
NumTasks == 2
\* Total number of requests received in one behaviour.
MaxRequests == 2
\* Number of distinct values the random source of Uuid::new_v4 yields.
MaxUuid == 2
\* Pool::builder() is used with its defaults (bb8: max_size 10); the pool is
\* scaled down so that NumTasks requests can exhaust it.
max_size == 1

Tasks == 1..NumTasks
Conns == 1..max_size
UuidValues == 0..(MaxUuid - 1)

(***************************************************************************)
(* Option<T>: None is the empty sequence, Some(v) the one-element one.     *)
(***************************************************************************)
None == <<>>
Some(v) == <<v>>
unwrap_or(opt, default) == IF opt = None THEN default ELSE opt[1]

(***************************************************************************)
(* Uuid::new_v4().simple().to_string(): 32 lower-case hex digits, no       *)
(* hyphens.  The version nibble (digit 13) is 4 and the variant nibble     *)
(* (digit 17) has its top bits 10; the other nibbles are random.  The      *)
(* model's random value r fills the low-order nibbles.                     *)
(***************************************************************************)
SimpleLen == 32
HexDigits == <<"0", "1", "2", "3", "4", "5", "6", "7",
               "8", "9", "a", "b", "c", "d", "e", "f">>

RECURSIVE Pow16(_)
Pow16(n) == IF n = 0 THEN 1 ELSE 16 * Pow16(n - 1)

Nibble(r, i) ==
    IF i = 13 THEN 4
    ELSE IF i = 17 THEN 8
    ELSE IF SimpleLen - i < 6 THEN (r \div Pow16(SimpleLen - i)) % 16
    ELSE 0

simple_to_string(r) == [i \in 1..SimpleLen |-> HexDigits[Nibble(r, i) + 1]]

(***************************************************************************)
(* Request inputs.                                                         *)
(***************************************************************************)
Todo(id, description, completed) ==
    [id |-> id, description |-> description, completed |-> completed]

Descriptions == {"buy milk"}

\* An id no create ever generates (it is not 32 digits long).
UnknownId == <<"n", "o", "n", "e">>
RequestIds == {simple_to_string(0), UnknownId}

\* The query strings of GET /todos: sequences of key=value pairs.
Pair(k, v) == [key |-> k, value |-> v]
NoQuery == <<>>
QueryStrings ==
    { NoQuery,
      << Pair("limit", <<"0">>) >>,
      << Pair("offset", <<"1">>), Pair("limit", <<"1">>) >> }

\* A wider set of query strings, for the requests handled one at a time.
AllQueryStrings ==
    QueryStrings \cup
    { << Pair("limit", <<"1">>) >>,
      << Pair("offset", <<"1">>) >>,
      << Pair("offset", <<"1">>), Pair("limit", <<"0">>) >>,
      << Pair("limit", <<"1">>), Pair("offset", <<"a", "b", "c">>) >>,
      << Pair("limit", <<"0">>), Pair("offset", <<"a", "b", "c">>) >>,
      << Pair("offset", <<"-", "1">>), Pair("limit", <<"0">>) >>,
      << Pair("limit", <<"-", "1">>) >>,
      << Pair("limit", <<"1">>), Pair("limit", <<"0">>) >>,
      << Pair("page", <<"2">>), Pair("limit", <<"1">>) >> }

CreateTodo == [description : Descriptions]
UpdateTodo ==
    { [id |-> simple_to_string(0), description |-> Some("test"),
       completed |-> Some(TRUE)],
      [id |-> UnknownId, description |-> None, completed |-> None] }

\* What the table may hold when the server starts: it outlives the process.
OldRow0 == Todo(simple_to_string(0), "test", TRUE)
OldRow9 == Todo(simple_to_string(9), "old", FALSE)
InitialTables == { <<>>, <<OldRow0>> }
InitialTablesList == InitialTables \cup { <<OldRow0, OldRow9>> }

(***************************************************************************)
(* Query<Pagination>: serde_urlencoded into two Option<i64> fields.        *)
(***************************************************************************)
DigitValue(c) ==
    CASE c = "0" -> 0 [] c = "1" -> 1 [] c = "2" -> 2 [] c = "3" -> 3
      [] c = "4" -> 4 [] c = "5" -> 5 [] c = "6" -> 6 [] c = "7" -> 7
      [] c = "8" -> 8 [] c = "9" -> 9 [] OTHER -> -1

RECURSIVE ParseDigits(_, _)
\* The digits of s read as a decimal number on top of acc; None when one
\* of them is no digit.
ParseDigits(s, acc) ==
    IF s = <<>> THEN Some(acc)
    ELSE IF DigitValue(Head(s)) < 0 THEN None
    ELSE ParseDigits(Tail(s), 10 * acc + DigitValue(Head(s)))

\* i64::from_str: an optional sign followed by at least one digit.
ParseI64(s) ==
    IF s = <<>> THEN None
    ELSE IF Head(s) \in {"-", "+"} THEN
        IF Tail(s) = <<>> THEN None
        ELSE LET m == ParseDigits(Tail(s), 0)
             IN  IF m = None THEN None
                 ELSE IF Head(s) = "-" THEN Some(0 - m[1]) ELSE m
    ELSE ParseDigits(s, 0)

\* Pagination::default()
PaginationDefault == [offset |-> None, limit |-> None]

RECURSIVE DeserializePagination(_, _)
\* The derived Deserialize of Pagination over the pairs of the query:
\* Some(pagination), or None when a field's value does not parse or a
\* field comes twice; keys that are no field are skipped.
DeserializePagination(q, acc) ==
    IF q = <<>> THEN Some(acc)
    ELSE LET p == Head(q)
         IN  IF p.key \notin {"offset", "limit"}
             THEN DeserializePagination(Tail(q), acc)
             ELSE IF acc[p.key] # None THEN None
             ELSE LET n == ParseI64(p.value)
                  IN  IF n = None THEN None
                      ELSE DeserializePagination(
                               Tail(q), [acc EXCEPT ![p.key] = Some(n[1])])

RECURSIVE DeserializeLenient(_, _)
\* A deserializer that skips a field whose value does not parse and keeps
\* the others.
DeserializeLenient(q, acc) ==
    IF q = <<>> THEN Some(acc)
    ELSE LET p == Head(q)
             n == ParseI64(p.value)
         IN  IF p.key \notin {"offset", "limit"} \/ n = None
             THEN DeserializeLenient(Tail(q), acc)
             ELSE DeserializeLenient(Tail(q), [acc EXCEPT ![p.key] = Some(n[1])])

ExtractPagination_lenient(q) == DeserializeLenient(q, PaginationDefault)

\* The extractor Option<Query<Pagination>>: a rejection becomes None.
ExtractPagination(q) == DeserializePagination(q, PaginationDefault)

\* A limit of 0 taken to mean "not given".
PaginationOf_zero_default(q) ==
    LET pagination == unwrap_or(ExtractPagination(q), PaginationDefault)
        limit == unwrap_or(pagination.limit, 100)
    IN  [offset |-> unwrap_or(pagination.offset, 0),
         limit |-> IF limit = 0 THEN 100 ELSE limit]

\* pagination.unwrap_or_default() and the two unwrap_or of todos_list.
PaginationOf(q) ==
    LET pagination == unwrap_or(ExtractPagination(q), PaginationDefault)
    IN  [offset |-> unwrap_or(pagination.offset, 0),
         limit |-> unwrap_or(pagination.limit, 100)]

(***************************************************************************)
(* Errors and their conversion to a response.                              *)
(***************************************************************************)
NoError == "NoError"

\* err.to_string() of the errors of bb8 and tokio_postgres.
to_string(err) ==
    CASE err = "TimedOut" -> "Timed out in bb8"
      [] err = "Closed" -> "connection closed"
      [] err = "UniqueViolation" ->
            "db error: ERROR: duplicate key value violates unique constraint"
      [] err = "NegativeOffset" -> "db error: ERROR: OFFSET must not be negative"
      [] err = "NegativeLimit" -> "db error: ERROR: LIMIT must not be negative"

INTERNAL_SERVER_ERROR == 500
CREATED == 201
OK == 200

\* The error blamed on the client.
internal_error_bad_request(err) == [status |-> 400, body |-> to_string(err)]

internal_error(err) == [status |-> INTERNAL_SERVER_ERROR, body |-> to_string(err)]

(***************************************************************************)
(* The table todo(id, description, completed) and its two statements.      *)
(***************************************************************************)
Range(s) == {s[i] : i \in 1..Len(s)}
Min(a, b) == IF a < b THEN a ELSE b

\* id is the primary key of the table.
ViolatesPrimaryKey(rows, id) == \E i \in 1..Len(rows) : rows[i].id = id

\* An insert that replaces what is stored.
InsertRow_replacing(rows, todo) == <<todo>>

\* insert into todo (id, description, completed) values ($1, $2, $3)
InsertRow(rows, todo) == Append(rows, todo)

\* A window that starts one row late.
SelectOffsetLimit_late(rows, offset, limit) ==
    SubSeq(rows, offset + 2, Min(Len(rows), offset + limit))

\* select id, description, completed from todo offset $1 limit $2
\* (rows come in heap order: the table is only ever appended to).
SelectOffsetLimit(rows, offset, limit) ==
    SubSeq(rows, offset + 1, Min(Len(rows), offset + limit))


(***************************************************************************)
(* State.                                                                  *)
(***************************************************************************)
VARIABLES
    table,      \* the rows of todo, in heap order
    db_up,      \* whether the database server answers
    idle,       \* the pool's queue of idle connections
    req,        \* per task: the request it handles and where the handler is
    nreq,       \* number of requests received so far
    created,    \* history: the records todo_create returned with 201, and
                \* the row number each was stored at
    deleted     \* history: the ids todo_delete answered 200 for, and the
                \* row number each id had then (0: no such row)

vars == <<table, db_up, idle, req, nreq, created, deleted>>

NoConn == 0
NoTodo == Todo(<<>>, "", FALSE)
NoResponse == [status |-> 0, body |-> ""]

\* A task that handles no request.
Idle ==
    [pc |-> "idle", handler |-> "none", input |-> <<>>, todo |-> NoTodo,
     offset |-> 0, limit |-> 0, conn |-> NoConn, err |-> NoError,
     resp |-> NoResponse, known |-> 0, gone |-> {}]

\* The pool holds max_size connections, all idle; no request is in flight.
InitServer ==
    /\ db_up = TRUE
    /\ idle = [i \in 1..max_size |-> i]
    /\ req = [t \in Tasks |-> Idle]
    /\ nreq = 0
    /\ created = <<>>
    /\ deleted = {}

Init == table \in InitialTables /\ InitServer

InitList == table \in InitialTablesList /\ InitServer

(***************************************************************************)
(* The router: a request arrives at a free task and is dispatched to its   *)
(* handler h with the extracted input; the task's previous response, if    *)
(* any, has been written out.                                              *)
(***************************************************************************)
Free(t) == req[t].pc \in {"idle", "done"}

\* known and gone remember, for a list request, what had been answered
\* when it arrived.
Dispatch(h, in) ==
    [Idle EXCEPT !.handler = h, !.input = in,
                 !.known = IF h = "todos_list" THEN Len(created) ELSE 0,
                 !.gone = IF h = "todos_list" THEN deleted ELSE {}]

(***************************************************************************)
(* The pool: pool.get() and the drop of a PooledConnection.                *)
(***************************************************************************)
\* get() hands out the connection at the head of the idle queue.
PoolCanGet == db_up /\ idle # <<>>
\* get() gives up (RunError::TimedOut) when no connection became available
\* in time: all are checked out, or none can be established.
PoolGetFails == ~db_up \/ idle = <<>>

\* get() leaves the connection it hands out in the queue.
idle_after_get_kept == idle

\* The idle queue once its head has been handed out.
idle_after_get == Tail(idle)

\* get() succeeds: task t goes on as r, holding the connection.
GetOk(t, r) ==
    /\ PoolCanGet
    /\ req' = [req EXCEPT ![t] = [r EXCEPT !.conn = Head(idle)]]
    /\ idle' = idle_after_get

\* get() fails: .map_err(internal_error)? returns from the handler.
GetErr(t) ==
    /\ PoolGetFails
    /\ req' = [req EXCEPT ![t].err = "TimedOut", ![t].pc = "done",
                          ![t].resp = internal_error("TimedOut")]
    /\ idle' = idle

\* The connection is not put back.
Release_leak(t) == idle

\* Dropping conn at the end of the handler puts it back in the pool.
Release(t) == Append(idle, req[t].conn)

\* The handler of t returns resp (after err, if any), dropping conn.
Return(t, err, resp) ==
    /\ req' = [req EXCEPT ![t].pc = "done", ![t].err = err, ![t].resp = resp,
                          ![t].conn = NoConn]
    /\ idle' = Release(t)

(***************************************************************************)
(* todo_create                                                             *)
(***************************************************************************)
\* The record starts out completed.
todo_create_new_completed(t, input) ==
    /\ Free(t) /\ nreq < MaxRequests
    /\ nreq' = nreq + 1
    /\ \E r \in UuidValues :
          req' = [req EXCEPT ![t] =
                    [Dispatch("todo_create", input) EXCEPT
                        !.pc = "get",
                        !.todo = Todo(simple_to_string(r), input.description, TRUE)]]
    /\ UNCHANGED <<table, db_up, idle, created, deleted>>

\* lines 93-97: the record, with a fresh random id.
todo_create_new(t, input) ==
    /\ Free(t) /\ nreq < MaxRequests
    /\ nreq' = nreq + 1
    /\ \E r \in UuidValues :
          req' = [req EXCEPT ![t] =
                    [Dispatch("todo_create", input) EXCEPT
                        !.pc = "get",
                        !.todo = Todo(simple_to_string(r), input.description, FALSE)]]
    /\ UNCHANGED <<table, db_up, idle, created, deleted>>

\* line 99
todo_create_get(t) ==
    /\ req[t].pc = "get" /\ req[t].handler = "todo_create"
    /\ GetOk(t, [req[t] EXCEPT !.pc = "execute"]) \/ GetErr(t)
    /\ UNCHANGED <<table, db_up, nreq, created, deleted>>

\* lines 101-109
todo_create_execute(t) ==
    /\ req[t].pc = "execute" /\ req[t].handler = "todo_create"
    /\ LET todo == req[t].todo IN
       \/ /\ db_up /\ ~ViolatesPrimaryKey(table, todo.id)
          /\ table' = InsertRow(table, todo)
          /\ Return(t, NoError, [status |-> CREATED, body |-> todo])
          /\ created' = Append(created, [todo |-> todo, at |-> Len(table')])
          /\ UNCHANGED db_up
       \/ /\ db_up /\ ViolatesPrimaryKey(table, todo.id)
          /\ Return(t, "UniqueViolation", internal_error("UniqueViolation"))
          /\ UNCHANGED <<table, db_up, created>>
       \/ /\ ~db_up
          /\ Return(t, "Closed", internal_error("Closed"))
          /\ UNCHANGED <<table, db_up, created>>
       \/ \* the row is stored but the connection is lost before the reply
          /\ db_up /\ ~ViolatesPrimaryKey(table, todo.id)
          /\ table' = InsertRow(table, todo)
          /\ db_up' = FALSE
          /\ Return(t, "Closed", internal_error("Closed"))
          /\ UNCHANGED created
    /\ UNCHANGED <<nreq, deleted>>

(***************************************************************************)
(* todo_update, todo_delete                                                *)
(***************************************************************************)
\* The row number of id in the table, 0 when no row has it.
RowOf(id) ==
    IF \E i \in 1..Len(table) : table[i].id = id
    THEN CHOOSE i \in 1..Len(table) : table[i].id = id
    ELSE 0

\* An update that looks the row up and answers 404 when there is none.
todo_update_checked(t, utodo) ==
    /\ Free(t) /\ nreq < MaxRequests
    /\ nreq' = nreq + 1
    /\ req' = [req EXCEPT ![t] =
                 [Dispatch("todo_update", utodo) EXCEPT
                     !.pc = "done",
                     !.resp = [status |-> IF RowOf(utodo.id) = 0 THEN 404 ELSE OK,
                               body |-> utodo.id]]]
    /\ UNCHANGED <<table, db_up, idle, created, deleted>>

\* line 117
todo_update(t, utodo) ==
    /\ Free(t) /\ nreq < MaxRequests
    /\ nreq' = nreq + 1
    /\ req' = [req EXCEPT ![t] =
                 [Dispatch("todo_update", utodo) EXCEPT
                     !.pc = "done", !.resp = [status |-> OK, body |-> utodo.id]]]
    /\ UNCHANGED <<table, db_up, idle, created, deleted>>

\* A delete that removes the row.
todo_delete_removing(t, id) ==
    /\ Free(t) /\ nreq < MaxRequests
    /\ nreq' = nreq + 1
    /\ req' = [req EXCEPT ![t] =
                 [Dispatch("todo_delete", id) EXCEPT
                     !.pc = "done", !.resp = [status |-> OK, body |-> id]]]
    /\ table' = SelectSeq(table, LAMBDA row : row.id # id)
    /\ deleted' = deleted \cup {[id |-> id, at |-> RowOf(id)]}
    /\ UNCHANGED <<db_up, idle, created>>

\* line 125
todo_delete(t, id) ==
    /\ Free(t) /\ nreq < MaxRequests
    /\ nreq' = nreq + 1
    /\ req' = [req EXCEPT ![t] =
                 [Dispatch("todo_delete", id) EXCEPT
                     !.pc = "done", !.resp = [status |-> OK, body |-> id]]]
    /\ deleted' = deleted \cup {[id |-> id, at |-> RowOf(id)]}
    /\ UNCHANGED <<table, db_up, idle, created>>

(***************************************************************************)
(* todos_list                                                              *)
(***************************************************************************)
\* the request arrives with its query string
todos_list_new(t, query) ==
    /\ Free(t) /\ nreq < MaxRequests
    /\ nreq' = nreq + 1
    /\ req' = [req EXCEPT ![t] =
                 [Dispatch("todos_list", query) EXCEPT !.pc = "get"]]
    /\ UNCHANGED <<table, db_up, idle, created, deleted>>

\* lines 133-136
todos_list_get(t) ==
    /\ req[t].pc = "get" /\ req[t].handler = "todos_list"
    /\ \/ LET p == PaginationOf(req[t].input) IN
          GetOk(t, [req[t] EXCEPT !.pc = "query",
                                  !.offset = p.offset, !.limit = p.limit])
       \/ GetErr(t)
    /\ UNCHANGED <<table, db_up, nreq, created, deleted>>

\* lines 148-159: each row becomes a Todo, in result order.
RowsToTodos(rows) ==
    [i \in 1..Len(rows) |-> Todo(rows[i].id, rows[i].description, rows[i].completed)]

\* lines 138-161
todos_list_query(t) ==
    /\ req[t].pc = "query" /\ req[t].handler = "todos_list"
    /\ \/ /\ db_up /\ req[t].offset >= 0 /\ req[t].limit >= 0
          /\ Return(t, NoError,
                [status |-> OK,
                 body |-> RowsToTodos(
                     SelectOffsetLimit(table, req[t].offset, req[t].limit))])
       \/ /\ db_up /\ req[t].offset < 0
          /\ Return(t, "NegativeOffset", internal_error("NegativeOffset"))
       \/ /\ db_up /\ req[t].offset >= 0 /\ req[t].limit < 0
          /\ Return(t, "NegativeLimit", internal_error("NegativeLimit"))
       \/ /\ ~db_up
          /\ Return(t, "Closed", internal_error("Closed"))
    /\ UNCHANGED <<table, db_up, nreq, created, deleted>>

(***************************************************************************)
(* The database server goes away and comes back.                           *)
(***************************************************************************)
DbDown ==
    /\ db_up /\ db_up' = FALSE
    /\ UNCHANGED <<table, idle, req, nreq, created, deleted>>

DbUp ==
    /\ ~db_up /\ db_up' = TRUE
    /\ UNCHANGED <<table, idle, req, nreq, created, deleted>>

(***************************************************************************)
(* Concurrent requests of all four handlers.                               *)
(***************************************************************************)
Next ==
    \/ \E t \in Tasks : \E input \in CreateTodo : todo_create_new(t, input)
    \/ \E t \in Tasks : todo_create_get(t)
    \/ \E t \in Tasks : todo_create_execute(t)
    \/ \E t \in Tasks : \E utodo \in UpdateTodo : todo_update(t, utodo)
    \/ \E t \in Tasks : \E id \in RequestIds : todo_delete(t, id)
    \/ \E t \in Tasks : \E query \in QueryStrings : todos_list_new(t, query)
    \/ \E t \in Tasks : todos_list_get(t)
    \/ \E t \in Tasks : todos_list_query(t)
    \/ DbDown
    \/ DbUp

Spec == Init /\ [][Next]_vars

(***************************************************************************)
(* GET /todos requests handled one at a time, over the wider set of query  *)
(* strings and tables.                                                     *)
(***************************************************************************)
NextList ==
    \/ \E query \in AllQueryStrings : todos_list_new(1, query)
    \/ todos_list_get(1)
    \/ todos_list_query(1)
    \/ DbDown
    \/ DbUp

SpecList == InitList /\ [][NextList]_vars

(***************************************************************************)
(* Properties.                                                             *)
(***************************************************************************)
Done(t, h) == req[t].pc = "done" /\ req[t].handler = h
Ids(rows) == {rows[i].id : i \in 1..Len(rows)}

\* Row number i lies in the window of offset and limit.
Covers(i, offset, limit) == offset < i /\ i <= offset + limit

\* C1 as stated: every finished create request has answered 201 with a
\* record that is not completed and whose id is non-empty and differs from
\* the id of every other created record.
C1_CreateAlwaysCreated ==
    /\ \A t \in Tasks : Done(t, "todo_create") =>
          /\ req[t].resp.status = CREATED
          /\ req[t].resp.body.completed = FALSE
          /\ req[t].resp.body.id # <<>>
    /\ \A i, j \in 1..Len(created) :
          i # j => created[i].todo.id # created[j].todo.id

\* C1 amended: a finished create request has answered 201, or 500 when
\* pool.get() or the insert failed; when it answered 201 the record has
\* the description of the request, completed = false and an id of 32
\* characters, and no two creates answered 201 with the same id.
C1_CreateCreatedUnlessFailed ==
    /\ \A t \in Tasks : Done(t, "todo_create") =>
          /\ req[t].resp.status \in {CREATED, INTERNAL_SERVER_ERROR}
          /\ (req[t].resp.status = CREATED) <=> (req[t].err = NoError)
          /\ req[t].resp.status = CREATED =>
                /\ req[t].resp.body.completed = FALSE
                /\ req[t].resp.body.description = req[t].input.description
                /\ req[t].resp.body.id # <<>>
                /\ Len(req[t].resp.body.id) = 32
    /\ \A i, j \in 1..Len(created) :
          i # j => created[i].todo.id # created[j].todo.id

\* Two creates have answered 201, one of them just now.
C1_Witness ==
    /\ Len(created) = 2
    /\ \E t \in Tasks : Done(t, "todo_create") /\ req[t].resp.status = CREATED

C3_UpdateDeleteStep ==
    \A t \in Tasks :
        /\ ( /\ req'[t] # req[t]
             /\ req'[t].handler \in {"todo_update", "todo_delete"} )
           => /\ table' = table
              /\ idle' = idle
              /\ req'[t].conn = NoConn
        /\ ( /\ req[t].handler = "todos_list" /\ req[t].pc = "query"
             /\ req'[t].pc = "done" /\ req'[t].resp.status = OK )
           => \A d \in deleted :
                 (d.at > 0 /\ Covers(d.at, req[t].offset, req[t].limit))
                    => d.id \in Ids(req'[t].resp.body)

\* C3: every step is such a step: todo_update and todo_delete never change
\* the stored table or check out a connection, and a deleted id's row is
\* still listed.
C3_UpdateDeleteNoOp == [][C3_UpdateDeleteStep]_vars

\* A list request that arrived after a delete answered 200 for the id of
\* a stored row has returned that row.
C3_Witness ==
    \E t \in Tasks :
        /\ Done(t, "todos_list") /\ req[t].resp.status = OK
        /\ \E d \in req[t].gone : d.at > 0 /\ d.id \in Ids(req[t].resp.body)

\* The id a finished update or delete request was given.
IdOf(t) ==
    IF req[t].handler = "todo_update" THEN req[t].input.id ELSE req[t].input

\* C4: every finished update or delete request has answered 200 with the
\* id it was given and no error, so two of them with the same id have the
\* same response; and whatever the table, the pool and the database are,
\* a free task can take such a request.
C4_UpdateDeleteAlwaysOk ==
    /\ \A t \in Tasks :
          (Done(t, "todo_update") \/ Done(t, "todo_delete")) =>
              /\ req[t].resp = [status |-> OK, body |-> IdOf(t)]
              /\ req[t].err = NoError
    /\ \A t1, t2 \in Tasks :
          /\ (Done(t1, "todo_update") \/ Done(t1, "todo_delete"))
          /\ req[t1].handler = req[t2].handler /\ req[t2].pc = "done"
          /\ IdOf(t1) = IdOf(t2)
          => req[t1].resp = req[t2].resp
    /\ \A t \in Tasks : (Free(t) /\ nreq < MaxRequests) =>
          /\ \A id \in RequestIds : ENABLED todo_delete(t, id)
          /\ \A utodo \in UpdateTodo : ENABLED todo_update(t, utodo)

\* An update or delete of an id that no row has has answered 200 while
\* the database is down and every connection is checked out.
C4_Witness ==
    \E t \in Tasks :
        /\ (Done(t, "todo_update") \/ Done(t, "todo_delete"))
        /\ req[t].resp.status = OK
        /\ RowOf(IdOf(t)) = 0
        /\ ~db_up /\ idle = <<>>

\* C5: a finished create or list request in which pool.get() or the
\* statement failed has answered 500 with the text of that error, one
\* without a failure has answered 201 or 200, and a free task can still
\* take a request.
C5_FailureIs500 ==
    /\ \A t \in Tasks : (Done(t, "todo_create") \/ Done(t, "todos_list")) =>
          IF req[t].err # NoError
          THEN /\ req[t].resp.status = 500
               /\ req[t].resp.body = to_string(req[t].err)
          ELSE req[t].resp.status \in {OK, CREATED}
    /\ \A t \in Tasks : (Free(t) /\ nreq < MaxRequests) =>
          /\ \E input \in CreateTodo : ENABLED todo_create_new(t, input)
          /\ \E query \in QueryStrings : ENABLED todos_list_new(t, query)

\* pool.get() has failed in one request and the statement in another.
C5_Witness ==
    \E t1, t2 \in Tasks :
        /\ Done(t1, "todo_create") /\ req[t1].err = "TimedOut"
        /\ Done(t2, "todos_list") /\ req[t2].err = "Closed"
        /\ req[t1].resp.status = 500 /\ req[t2].resp.status = 500

\* C6: a task whose handler has finished holds no connection, every
\* connection is in the idle queue or held by a request in flight, and
\* with no request in flight all max_size connections are idle.
C6_ConnectionsReturned ==
    /\ \A t \in Tasks : Free(t) => req[t].conn = NoConn
    /\ \A c \in Conns :
          \/ c \in Range(idle)
          \/ \E t \in Tasks : ~Free(t) /\ req[t].conn = c
    /\ (\A t \in Tasks : Free(t)) => Len(idle) = max_size

\* A statement has failed after a successful get(), every request has
\* finished and every connection is idle.
C6_Witness ==
    /\ \E t \in Tasks :
          /\ req[t].pc = "done"
          /\ req[t].err \in {"Closed", "UniqueViolation", "NegativeOffset",
                             "NegativeLimit"}
    /\ \A t \in Tasks : Free(t)
    /\ Len(idle) = max_size

\* The tasks that hold a connection.
Holders == {t \in Tasks : req[t].conn # NoConn}

\* C7: no two tasks hold the same connection, a held connection is not
\* in the idle queue and is held by a request in flight, and the held and
\* the idle connections together are the max_size connections of the pool.
C7_ExclusiveConnections ==
    /\ \A t1, t2 \in Holders : t1 # t2 => req[t1].conn # req[t2].conn
    /\ \A t \in Holders : req[t].conn \notin Range(idle) /\ ~Free(t)
    /\ \A i, j \in 1..Len(idle) : i # j => idle[i] # idle[j]
    /\ Cardinality(Holders) <= max_size
    /\ Cardinality(Holders) + Len(idle) = max_size

\* Every connection is checked out while another request waits in get().
C7_Witness ==
    /\ Cardinality(Holders) = max_size
    /\ db_up
    /\ \E t \in Tasks : req[t].pc = "get" /\ req[t].conn = NoConn

\* The query string carries limit=0.
HasLimitZero(q) == \E i \in 1..Len(q) : q[i].key = "limit" /\ q[i].value = <<"0">>

\* The query string parses as a whole, with limit=0.
ParsesLimitZero(q) ==
    /\ ExtractPagination(q) # None
    /\ ExtractPagination(q)[1].limit = Some(0)

\* C8 as stated: every finished list request with limit=0 has answered
\* with the empty array.
C8_LimitZeroIsEmpty ==
    \A t \in Tasks : (Done(t, "todos_list") /\ HasLimitZero(req[t].input)) =>
        /\ req[t].resp.status = OK
        /\ req[t].resp.body = <<>>

\* C8 amended: every finished list request whose query string parses with
\* limit=0 and that has answered 200 has answered with the empty array.
C8_LimitZeroIsEmptyWhenOk ==
    \A t \in Tasks :
        ( /\ Done(t, "todos_list") /\ ParsesLimitZero(req[t].input)
          /\ req[t].resp.status = OK )
        => req[t].resp.body = <<>>

\* A list request with limit=0 has answered 200 with the empty array
\* while the table holds rows.
C8_Witness ==
    \E t \in Tasks :
        /\ Done(t, "todos_list") /\ ParsesLimitZero(req[t].input)
        /\ req[t].resp.status = OK /\ req[t].resp.body = <<>>
        /\ Len(table) > 0

\* s is an integer as written in a query string.
IsInteger(s) ==
    LET digits == IF s # <<>> /\ s[1] \in {"-", "+"} THEN Tail(s) ELSE s
    IN  /\ digits # <<>>
        /\ \A i \in 1..Len(digits) :
              digits[i] \in {"0", "1", "2", "3", "4", "5", "6", "7", "8", "9"}

\* Some offset or limit of the query string is no integer.
Unparseable(q) ==
    \E i \in 1..Len(q) : q[i].key \in {"offset", "limit"} /\ ~IsInteger(q[i].value)

\* C9: a list request that got its connection applies offset 0 and limit
\* 100 when it has no query parameters or when one of them does not parse
\* (limit=1&offset=abc included), its own default for a parameter that is
\* missing and the given value for the other; and an unparseable query
\* string alone gives no error response: such a request fails only when
\* pool.get() or the query fails.
C9_PaginationDefaults ==
    \A t \in Tasks :
        req[t].handler = "todos_list" =>
            LET q == req[t].input
                applied == <<req[t].offset, req[t].limit>>
            IN  /\ (req[t].pc = "query"
                      \/ (req[t].pc = "done" /\ req[t].err # "TimedOut")) =>
                      /\ q = NoQuery => applied = <<0, 100>>
                      /\ Unparseable(q) => applied = <<0, 100>>
                      /\ q = << Pair("limit", <<"1">>),
                                Pair("offset", <<"a", "b", "c">>) >>
                            => applied = <<0, 100>>
                      /\ q = << Pair("limit", <<"1">>) >> => applied = <<0, 1>>
                      /\ q = << Pair("offset", <<"1">>) >> => applied = <<1, 100>>
                      /\ q = << Pair("offset", <<"1">>), Pair("limit", <<"1">>) >>
                            => applied = <<1, 1>>
                /\ (req[t].pc = "done" /\ Unparseable(q)) =>
                      IF req[t].err \in {"TimedOut", "Closed"}
                      THEN req[t].resp.status = 500
                      ELSE req[t].err = NoError /\ req[t].resp.status = OK

\* A list request with limit=1&offset=abc has answered 200 with more than
\* one row: the limit it gave was dropped with the offset.
C9_Witness ==
    \E t \in Tasks :
        /\ Done(t, "todos_list") /\ req[t].resp.status = OK
        /\ req[t].input = << Pair("limit", <<"1">>),
                             Pair("offset", <<"a", "b", "c">>) >>
        /\ Len(req[t].resp.body) > 1

\* C10: a step changes the table only when it is the execute step of a
\* create request, and then by appending that request's record; the step
\* in which a create answers 201 has appended the record it returns, the
\* step in which pool.get() fails in a create leaves the table as it is,
\* and no step removes or changes a row.
C10_TableStep ==
    /\ \/ table' = table
       \/ \E t \in Tasks :
             /\ req[t].handler = "todo_create" /\ req[t].pc = "execute"
             /\ req'[t].pc = "done"
             /\ table' = Append(table, req[t].todo)
    /\ Len(table') <= Len(table) + 1
    /\ SubSeq(table', 1, Len(table)) = table
    /\ \A t \in Tasks :
          ( /\ req[t].handler = "todo_create" /\ req[t].pc \in {"get", "execute"}
            /\ req'[t].pc = "done" )
          => /\ req'[t].resp.status = CREATED =>
                   table' = Append(table, req'[t].resp.body)
             /\ req'[t].err = "TimedOut" => table' = table

\* C10: every step is such a step: the table changes only by the insert of
\* todo_create, one row at a time, and never loses or changes a row.
C10_TableOnlyGrowsByCreate == [][C10_TableStep]_vars

\* A create has answered 201, a delete has then answered 200 for the id of
\* the created row, and the row is stored as it was returned.
C10_Witness ==
    \E k \in 1..Len(created) : \E d \in deleted :
        /\ d.id = created[k].todo.id /\ d.at = created[k].at
        /\ table[d.at] = created[k].todo

====
